---- MODULE Spec2Model ----
(***************************************************************************)
(* Ledger store of the personal finance tracker (FinanceDatabase in        *)
(* src/personal_finance_tracker.py.py) as a state machine over the SQLite  *)
(* tables it owns, together with the form handlers of PersonalFinanceApp   *)
(* that call it.                                                           *)
(*                                                                         *)
(* Text values whose contents the code inspects (dates, currency codes,    *)
(* the text of the amount entry) are sequences of one-character strings,   *)
(* so that prefix tests, LIKE patterns, SQL string interpolation and       *)
(* float() are computed character by character.  Amounts are binary        *)
(* doubles (the REAL column, Python float), added with the rounding of     *)
(* IEEE 754.  A Python Optional is a sequence of length 0 (None) or 1      *)
(* (the value).                                                            *)
(***************************************************************************)
EXTENDS Integers, Sequences, FiniteSets, TLC

VARIABLES
  transactions,      \* rows of table transactions, in rowid order
  sqlite_sequence,   \* largest rowid AUTOINCREMENT has given the table (0: none yet)
  default_currency,  \* currency_settings.default_currency of row id = 1
  current_currency,  \* PersonalFinanceApp.current_currency
  clock,             \* CURRENT_TIMESTAMP, in whole seconds
  reserved_lock,     \* an unclosed connection holds the write lock of the database file
  issued,            \* history: the ids given to inserted rows, in the order given
  budgets,           \* rows of table budgets
  savings_goals,     \* rows of table savings_goals
  last,              \* the call made last and whether it succeeded
  contacts,          \* ContactBookApp.contacts, the list of contact dicts
  contacts_file,     \* the text of contacts.json, None while the file does not exist
  search_var,        \* the text of the search entry
  contact_listbox,   \* the names the listbox shows, top to bottom
  selection,         \* contact_listbox.curselection(): 0 for none, else the line
  running            \* the contact book process is alive

\* The tables of the finance database and the state of the finance window.
ledgerVars ==
  <<transactions, sqlite_sequence, default_currency, current_currency, clock,
    reserved_lock, issued, budgets, savings_goals>>

\* The state of the contact book.
contactVars ==
  <<contacts, contacts_file, search_var, contact_listbox, selection, running>>

vars == <<ledgerVars, last, contactVars>>

(***************************************************************************)
(* Bounds of the model.                                                    *)
(***************************************************************************)
\* Number of successful inserts after which no further insert is explored.
MaxAdds == 2
\* Number of clock seconds that pass (CURRENT_TIMESTAMP has 1 s resolution).
MaxClock == 1

(***************************************************************************)
(* Characters and strings.                                                 *)
(***************************************************************************)
\* The characters used, in ASCII order (memcmp order of SQLite's BINARY collation).
Alphabet ==
  <<" ", "\"", "%", "'", "-", "0", "1", "2", "3", "4", "5", "6", "7", "8", "9", "=",
    "A", "B", "C", "D", "I", "N", "O", "R", "S", "U", "X", "\\", "_", "a", "b", "c">>

Ord(c) == CHOOSE i \in 1..Len(Alphabet) : Alphabet[i] = c

Digits == {"0", "1", "2", "3", "4", "5", "6", "7", "8", "9"}

DigitVal(c) == Ord(c) - Ord("0")

\* ASCII case folding, as LIKE applies it.
Fold(c) == CASE c = "a" -> "A" [] c = "b" -> "B" [] c = "c" -> "C" [] OTHER -> c

None == << >>

Some(x) == <<x>>

RECURSIVE StrLess(_, _)
\* s < t bytewise; a proper prefix is smaller.
StrLess(s, t) ==
  IF t = << >> THEN FALSE
  ELSE IF s = << >> THEN TRUE
  ELSE IF Head(s) # Head(t) THEN Ord(Head(s)) < Ord(Head(t))
  ELSE StrLess(Tail(s), Tail(t))

IsPrefix(p, s) == Len(p) <= Len(s) /\ SubSeq(s, 1, Len(p)) = p

RECURSIVE DigitsValue(_)
\* The number a sequence of digits denotes.
DigitsValue(s) ==
  IF s = << >> THEN 0
  ELSE 10 * DigitsValue(SubSeq(s, 1, Len(s) - 1)) + DigitVal(s[Len(s)])

AllDigits(s) == \A i \in 1..Len(s) : s[i] \in Digits

(***************************************************************************)
(* Calendar dates in ISO form YYYY-MM-DD.  The store never inspects a      *)
(* date; this is the ledger contract's notion of a valid date, which the   *)
(* claim about invalid dates is stated with.                               *)
(***************************************************************************)
IsLeap(y) == (y % 4 = 0 /\ y % 100 # 0) \/ y % 400 = 0

DaysInMonth(y, m) ==
  IF m = 2 THEN (IF IsLeap(y) THEN 29 ELSE 28)
  ELSE IF m \in {4, 6, 9, 11} THEN 30 ELSE 31

IsValidDate(s) ==
  /\ Len(s) = 10
  /\ s[5] = "-" /\ s[8] = "-"
  /\ AllDigits(SubSeq(s, 1, 4)) /\ AllDigits(SubSeq(s, 6, 7)) /\ AllDigits(SubSeq(s, 9, 10))
  /\ LET y == DigitsValue(SubSeq(s, 1, 4))
         m == DigitsValue(SubSeq(s, 6, 7))
         d == DigitsValue(SubSeq(s, 9, 10))
     IN  y >= 1 /\ m \in 1..12 /\ d \in 1..DaysInMonth(y, m)

(***************************************************************************)
(* Amounts: column amount is REAL and Python passes a float, so an amount  *)
(* is a binary double, a number with 53 significant bits.  The doubles of  *)
(* the model are the multiples m * 2^-46 of magnitude below 2048: every    *)
(* whole number and every double from 64 on in that range.  m is kept as   *)
(* hi * Limb + lo with 0 <= lo < Limb, so that no part leaves the range    *)
(* of the numbers TLC computes with.                                       *)
(***************************************************************************)
Limb == 2^27

\* The double with the value of the whole number n: n * 2^46 = n * 2^19 * Limb.
Double(n) == [hi |-> n * 2^19, lo |-> 0]

Zero == Double(0)

\* hi * Limb + lo with lo brought back into 0..Limb-1.
Carry(hi, lo) == [hi |-> hi + lo \div Limb, lo |-> lo % Limb]

\* a + b and -a as real numbers.
ExactSum(a, b) == Carry(a.hi + b.hi, a.lo + b.lo)
Negated(a) == IF a.lo = 0 THEN [hi |-> 0 - a.hi, lo |-> 0] ELSE [hi |-> 0 - a.hi - 1, lo |-> Limb - a.lo]

IsNegative(a) == a.hi < 0
\* amount <= 0 and amount > 0
NotPositive(a) == a.hi < 0 \/ a = Zero
IsPositive(a) == ~NotPositive(a)

RECURSIVE Ulp(_)
\* The distance between neighbouring doubles at m = hi * Limb + lo >= 0, in
\* units of 2^-46: 1 below 2^53, and twice as much from every power of two on.
Ulp(hi) == IF hi < 2^26 THEN 1 ELSE 2 * Ulp(hi \div 2)

\* The double nearest to a real number a >= 0, the one with the even
\* significand when a lies halfway between two (round-half-to-even).
RoundHalfEven(a) ==
  LET ulp == Ulp(a.hi)
      rest == a.lo % ulp
      below == a.lo - rest
  IN  IF 2 * rest < ulp \/ (2 * rest = ulp /\ (below \div ulp) % 2 = 0)
      THEN [hi |-> a.hi, lo |-> below]
      ELSE Carry(a.hi, below + ulp)

\* The double a real number is rounded to.
Round(a) == IF IsNegative(a) THEN Negated(RoundHalfEven(Negated(a))) ELSE RoundHalfEven(a)

\* a + b and a - b of two doubles.
fadd(a, b) == Round(ExactSum(a, b))
fsub(a, b) == Round(ExactSum(a, Negated(b)))

\* Amounts with two decimal places, as the doubles the literals 70.10, 80.20
\* and 90.30 are.
A_70_10 == [hi |-> 36752588, lo |-> 107374182]
A_80_20 == [hi |-> 42047897, lo |-> 80530637]
A_90_30 == [hi |-> 47343206, lo |-> 53687091]

(***************************************************************************)
(* Input values.                                                           *)
(***************************************************************************)
INR == <<"I", "N", "R">>
USD == <<"U", "S", "D">>
\* A code outside PersonalFinanceApp.currencies.
XBA == <<"X", "B", "A">>
\* A currency argument that closes the interpolated SQL literal: ' OR '1'='1
QuoteOrTrue == <<"'", " ", "O", "R", " ", "'", "1", "'", "=", "'", "1">>
\* A currency argument with a lone quote: the interpolated statement does not parse.
QuoteOnly == <<"U", "'", "S">>
EmptyStr == << >>

D_2025_01_15 == <<"2", "0", "2", "5", "-", "0", "1", "-", "1", "5">>
\* Not a calendar date.
D_2025_02_30 == <<"2", "0", "2", "5", "-", "0", "2", "-", "3", "0">>

M_2025_01 == <<"2", "0", "2", "5", "-", "0", "1">>
M_2025_02 == <<"2", "0", "2", "5", "-", "0", "2">>
M_2024_12 == <<"2", "0", "2", "4", "-", "1", "2">>
\* Month arguments holding LIKE wildcards.
M_2025_x2 == <<"2", "0", "2", "5", "-", "_", "2">>
M_Percent == <<"%">>

Call(date, trans_type, category, amount, currency) ==
  [date |-> date, trans_type |-> trans_type, category |-> category,
   amount |-> amount, currency |-> currency, description |-> ""]

\* Arguments of direct calls of FinanceDatabase.add_transaction, the way main's
\* sample loader calls it.  The store's caller is free in what it passes.
StoreCalls ==
  { Call(D_2025_01_15, "income", "Salary", Double(100), INR),
    Call(D_2025_01_15, "expense", "Food", Double(40), INR),
    Call(D_2025_01_15, "expense", "Food", Double(-5), INR),
    Call(D_2025_02_30, "income", "Gift", Double(100), USD),
    Call(D_2025_01_15, "transfer", "Food", Double(40), INR) }

\* Contents of the entry widgets when the Add Transaction button is pressed.
Form(amount, category, trans_type, trans_currency) ==
  [amount |-> amount, category |-> category, trans_type |-> trans_type,
   trans_currency |-> trans_currency, description |-> ""]

Forms ==
  { Form(<<"1", "0", "0">>, "Salary", "income", INR),
    Form(<<"4", "0">>, "Food", "expense", INR),
    Form(<<"-", "5">>, "Food", "expense", INR),
    Form(<<"0">>, "Food", "expense", INR),
    Form(<<"a", "b", "c">>, "Food", "expense", INR),
    Form(EmptyStr, "Food", "expense", INR),
    Form(<<"4", "0">>, "", "expense", INR) }

\* Values datetime.date.today() takes.
Today == {D_2025_01_15}

\* Arguments of direct calls of set_default_currency.
CurrencyArgs == {XBA}
\* PersonalFinanceApp.currencies, the values of the currency selector.
currencies == {INR, USD}

\* Arguments of get_balance.
CurrencyFilters == {None, Some(INR), Some(USD), Some(EmptyStr), Some(QuoteOrTrue)}
\* Arguments of get_monthly_data.
MonthArgs == {M_2025_01, M_2025_02, M_2024_12, M_2025_x2, M_Percent, EmptyStr}
\* Arguments of get_transactions.
LimitArgs == {None, Some(0), Some(1), Some(2), Some(10)}

(***************************************************************************)
(* SQL and Python helpers.                                                 *)
(***************************************************************************)
\* Python truthiness of an Optional[str]: None and "" are false.
TruthyStr(opt) == opt # None /\ opt[1] # << >>

\* Python truthiness of an Optional[int]: None and 0 are false.
TruthyInt(opt) == opt # None /\ opt[1] # 0

\* x or 0, for the Optional a SUM() yields (NULL over no rows).
OrZero(opt) == IF opt = None THEN Zero ELSE opt[1]

RECURSIVE SumStep(_, _)
\* The accumulator of SUM() after the rows, in the order they are visited:
\* one double addition for each.
SumStep(acc, rows) ==
  IF rows = << >> THEN acc ELSE SumStep(fadd(acc, Head(rows).amount), Tail(rows))

SumAmounts(rows) == SumStep(Zero, rows)

\* SELECT SUM(amount) over the selected rows: NULL when there is none.
SqlSum(rows) == IF rows = << >> THEN None ELSE Some(SumAmounts(rows))

RECURSIVE LikeMatch(_, _)
\* s LIKE p: % matches any run of characters, _ any one character, any other
\* character itself without regard to ASCII case.
LikeMatch(p, s) ==
  IF p = << >> THEN s = << >>
  ELSE IF Head(p) = "%" THEN LikeMatch(Tail(p), s) \/ (s # << >> /\ LikeMatch(p, Tail(s)))
  ELSE /\ s # << >>
       /\ (Head(p) = "_" \/ Fold(Head(p)) = Fold(Head(s)))
       /\ LikeMatch(Tail(p), Tail(s))

RECURSIVE ScanLiteral(_, _)
\* Reads an SQL string literal whose opening quote has been consumed: a doubled
\* quote stands for one quote, a single quote ends the literal.
ScanLiteral(text, acc) ==
  IF text = << >> THEN [closed |-> FALSE, lit |-> acc, rest |-> << >>]
  ELSE IF Head(text) = "'"
       THEN IF Len(text) >= 2 /\ text[2] = "'"
            THEN ScanLiteral(Tail(Tail(text)), Append(acc, "'"))
            ELSE [closed |-> TRUE, lit |-> acc, rest |-> Tail(text)]
       ELSE ScanLiteral(Tail(text), Append(acc, Head(text)))

OrTrueClause == <<" ", "O", "R", " ", "'", "1", "'", "=", "'", "1", "'">>

\* The condition that "AND currency = '{currency}'" contributes once SQLite has
\* parsed the interpolated text.
currency_filter(currency) ==
  IF ~TruthyStr(currency) THEN [kind |-> "none"]
  ELSE LET scan == ScanLiteral(Append(currency[1], "'"), << >>)
       IN  IF scan.closed /\ scan.rest = << >> THEN [kind |-> "equals", lit |-> scan.lit]
           ELSE IF scan.closed /\ scan.rest = OrTrueClause
                THEN [kind |-> "equals_or_true", lit |-> scan.lit]
                ELSE [kind |-> "syntax_error"]

\* WHERE type = '<trans_type>' <currency_filter>, AND binding tighter than OR.
BalanceWhere(row, trans_type, filter) ==
  CASE filter.kind = "none" -> row.type = trans_type
    [] filter.kind = "equals" -> row.type = trans_type /\ row.currency = filter.lit
    [] filter.kind = "equals_or_true" -> (row.type = trans_type /\ row.currency = filter.lit) \/ TRUE

(***************************************************************************)
(* Queries of FinanceDatabase: functions of the current table.             *)
(***************************************************************************)
\* get_balance(currency): the dict returned, or the exception raised when the
\* interpolated statement does not parse.
get_balance(currency) ==
  LET filter == currency_filter(currency)
      IsIncome(row) == BalanceWhere(row, "income", filter)
      IsExpense(row) == BalanceWhere(row, "expense", filter)
  IN  IF filter.kind = "syntax_error" THEN [raised |-> "sqlite3.OperationalError"]
      ELSE LET total_income == OrZero(SqlSum(SelectSeq(transactions, IsIncome)))
               total_expenses == OrZero(SqlSum(SelectSeq(transactions, IsExpense)))
           IN  [total_income |-> total_income,
                total_expenses |-> total_expenses,
                balance |-> fsub(total_income, total_expenses)]

\* WHERE type = <trans_type> AND date LIKE '<month>%', the pattern bound as a parameter.
MonthWhere(row, trans_type, month) ==
  row.type = trans_type /\ LikeMatch(Append(month, "%"), row.date)

\* Mutant of GroupByCategory: one key for every category the table holds, with
\* 0 for a category none of the selected rows has (an outer join on categories).
GroupByCategory_ZeroFilled(rows) ==
  LET Of(c) == SelectSeq(rows, LAMBDA row : row.category = c)
  IN  [c \in {transactions[i].category : i \in 1..Len(transactions)} |-> SumAmounts(Of(c))]

\* SELECT category, SUM(amount) ... GROUP BY category, made a dict.
GroupByCategory(rows) ==
  LET Of(c) == SelectSeq(rows, LAMBDA row : row.category = c)
  IN  [c \in {rows[i].category : i \in 1..Len(rows)} |-> SumAmounts(Of(c))]

get_monthly_data(month) ==
  LET IsIncome(row) == MonthWhere(row, "income", month)
      IsExpense(row) == MonthWhere(row, "expense", month)
  IN  [income |-> OrZero(SqlSum(SelectSeq(transactions, IsIncome))),
       expenses |-> OrZero(SqlSum(SelectSeq(transactions, IsExpense))),
       expense_categories |-> GroupByCategory(SelectSeq(transactions, IsExpense)),
       income_categories |-> GroupByCategory(SelectSeq(transactions, IsIncome))]

\* ORDER BY date DESC, created_at DESC puts a strictly before b.
OrderedBefore(a, b) ==
  \/ StrLess(b.date, a.date)
  \/ a.date = b.date /\ a.created_at > b.created_at

Perms(n) == {p \in [1..n -> 1..n] : \A i, j \in 1..n : p[i] = p[j] => i = j}

\* The orders in which the ORDER BY may deliver the rows: rows equal in both
\* keys come in an order SQL leaves open.
OrderByDateCreatedAt ==
  LET n == Len(transactions)
  IN  { [i \in 1..n |-> transactions[p[i]]] :
          p \in { q \in Perms(n) :
                    \A i, j \in 1..n :
                      i < j => ~OrderedBefore(transactions[q[j]], transactions[q[i]]) } }

\* The dict built from a fetched row (the selected columns leave created_at out).
RowDict(row) ==
  [id |-> row.id, date |-> row.date, type |-> row.type, category |-> row.category,
   amount |-> row.amount, currency |-> row.currency, description |-> row.description]

\* LIMIT n: a negative n is no limit.
Limit(rows, n) == IF n < 0 \/ n >= Len(rows) THEN rows ELSE SubSeq(rows, 1, n)

\* get_transactions(limit): the lists the call may return.
get_transactions(limit) ==
  { [i \in 1..Len(rows) |-> RowDict(rows[i])] :
      rows \in { IF TruthyInt(limit) THEN Limit(ordered, limit[1]) ELSE ordered :
                   ordered \in OrderByDateCreatedAt } }

get_default_currency == default_currency

(***************************************************************************)
(* Statements of FinanceDatabase that change the tables.  Each operator    *)
(* gives the value returned and the tables after the call.                 *)
(***************************************************************************)
Max(a, b) == IF a >= b THEN a ELSE b

\* Largest rowid in the table (rows are kept in rowid order).
MaxRowid == IF transactions = << >> THEN 0 ELSE transactions[Len(transactions)].id

\* Mutant of NextRowid: a plain INTEGER PRIMARY KEY, which gives max(rowid) + 1.
NextRowid_WithoutAutoincrement == MaxRowid + 1

\* id INTEGER PRIMARY KEY AUTOINCREMENT: one more than the largest rowid the
\* table has ever held, which sqlite_sequence remembers across deletes.
NextRowid == Max(sqlite_sequence, MaxRowid) + 1

\* The constraints of the table: CHECK (type IN ('income', 'expense')).  date,
\* category, amount and currency are NOT NULL and otherwise unconstrained.
TableConstraints(trans_type) == trans_type \in {"income", "expense"}

\* A statement that writes runs in a transaction sqlite3 opens implicitly and
\* needs the write lock of the file.  While another connection holds that lock
\* the statement raises sqlite3.OperationalError ("database is locked") once
\* the busy timeout has passed.
DatabaseIsLocked == reserved_lock

add_transaction(date, trans_type, category, amount, currency, description) ==
  IF DatabaseIsLocked
  THEN \* caught: "Error adding transaction"
       [ret |-> FALSE, transactions |-> transactions,
        sqlite_sequence |-> sqlite_sequence, reserved_lock |-> reserved_lock]
  ELSE IF TableConstraints(trans_type)
  THEN [ret |-> TRUE,
        transactions |->
          Append(transactions,
                 [id |-> NextRowid, date |-> date, type |-> trans_type,
                  category |-> category, amount |-> amount, currency |-> currency,
                  description |-> description, created_at |-> clock]),
        sqlite_sequence |-> NextRowid,
        reserved_lock |-> FALSE]
  ELSE \* sqlite3.IntegrityError, caught: the except branch returns with neither
       \* rollback nor close, so the connection stays open inside its
       \* transaction, holding the write lock, until the interpreter reclaims it.
       [ret |-> FALSE, transactions |-> transactions,
        sqlite_sequence |-> sqlite_sequence, reserved_lock |-> TRUE]

delete_transaction(transaction_id) ==
  LET kept == SelectSeq(transactions, LAMBDA row : row.id # transaction_id)
      rows_affected == Len(transactions) - Len(kept)
  IN  IF DatabaseIsLocked
      THEN \* caught: "Error deleting transaction"
           [ret |-> FALSE, transactions |-> transactions]
      ELSE [ret |-> rows_affected > 0, transactions |-> kept]

\* Mutant of clear_all_data: the DELETE FROM transactions is missing.
clear_all_data_KeepsTransactions ==
  IF DatabaseIsLocked
  THEN [ret |-> FALSE, transactions |-> transactions, budgets |-> budgets,
        savings_goals |-> savings_goals]
  ELSE [ret |-> TRUE, transactions |-> transactions, budgets |-> << >>,
        savings_goals |-> << >>]

clear_all_data ==
  IF DatabaseIsLocked
  THEN \* caught: "Error clearing data"
       [ret |-> FALSE, transactions |-> transactions, budgets |-> budgets,
        savings_goals |-> savings_goals]
  ELSE [ret |-> TRUE, transactions |-> << >>, budgets |-> << >>,
        savings_goals |-> << >>]

\* Mutant of set_default_currency: also rewrites the currency of the stored rows.
set_default_currency_Relabels(currency) ==
  IF DatabaseIsLocked
  THEN [ret |-> FALSE, default_currency |-> default_currency, transactions |-> transactions]
  ELSE [ret |-> TRUE, default_currency |-> currency,
        transactions |-> [i \in 1..Len(transactions) |->
                            [transactions[i] EXCEPT !.currency = currency]]]

set_default_currency(currency) ==
  IF DatabaseIsLocked
  THEN \* caught: "Error setting currency"
       [ret |-> FALSE, default_currency |-> default_currency, transactions |-> transactions]
  ELSE [ret |-> TRUE, default_currency |-> currency, transactions |-> transactions]

\* float(text) for texts of an optional sign and digits; None stands for ValueError.
float(text) ==
  LET body == IF text # << >> /\ Head(text) = "-" THEN Tail(text) ELSE text
  IN  IF body = << >> \/ ~AllDigits(body) THEN None
      ELSE IF Head(text) = "-" THEN Some(Double(0 - DigitsValue(body)))
      ELSE Some(Double(DigitsValue(body)))

(***************************************************************************)
(* Actions.                                                                *)
(***************************************************************************)
Returned(op, ret) == [op |-> op, ret |-> ret]

\* The history of ids after a call of add_transaction that returned r.
Issued(r) ==
  IF r.ret THEN Append(issued, r.transactions[Len(r.transactions)].id) ELSE issued

\* The contact book is not open while the finance tracker is looked at.
ContactBookClosed ==
  /\ contacts = << >>
  /\ contacts_file = None
  /\ search_var = << >>
  /\ contact_listbox = << >>
  /\ selection = 0
  /\ running = FALSE

Init ==
  /\ transactions = << >>
  /\ issued = << >>
  /\ reserved_lock = FALSE
  /\ sqlite_sequence = 0
  /\ default_currency = INR
  /\ current_currency = INR
  /\ clock = 0
  /\ budgets = << >>
  /\ savings_goals = << >>
  /\ last = Returned("init_database", TRUE)
  /\ ContactBookClosed

\* A direct call db.add_transaction(...), as in main's sample loader.
Do_add_transaction(c) ==
  /\ LET r == add_transaction(c.date, c.trans_type, c.category, c.amount, c.currency,
                              c.description)
     IN  /\ transactions' = r.transactions
         /\ sqlite_sequence' = r.sqlite_sequence
         /\ reserved_lock' = r.reserved_lock
         /\ issued' = Issued(r)
         /\ last' = Returned("add_transaction", r.ret)
  /\ UNCHANGED <<default_currency, current_currency, clock>>
  /\ UNCHANGED <<budgets, savings_goals>>
  /\ UNCHANGED contactVars

Call_add_transaction(c) ==
  /\ sqlite_sequence < MaxAdds
  /\ Do_add_transaction(c)

\* The Add Transaction button.
PersonalFinanceApp_add_transaction(form, today) ==
  /\ sqlite_sequence < MaxAdds
  /\ IF form.amount = EmptyStr \/ form.category = ""
     THEN \* showerror: "Please fill in all required fields"
          /\ last' = Returned("PersonalFinanceApp.add_transaction", FALSE)
          /\ UNCHANGED <<transactions, sqlite_sequence, reserved_lock, issued>>
     ELSE LET amount == float(form.amount)
          IN  IF amount = None
              THEN \* ValueError, showerror: "Please enter a valid amount"
                   /\ last' = Returned("PersonalFinanceApp.add_transaction", FALSE)
                   /\ UNCHANGED <<transactions, sqlite_sequence, reserved_lock, issued>>
              ELSE IF NotPositive(amount[1])
              THEN \* showerror: "Amount must be positive"
                   /\ last' = Returned("PersonalFinanceApp.add_transaction", FALSE)
                   /\ UNCHANGED <<transactions, sqlite_sequence, reserved_lock, issued>>
              ELSE \* showinfo "Transaction added successfully!" and a refresh of
                   \* the dashboard, or showerror "Failed to add transaction"
                   LET r == add_transaction(today, form.trans_type, form.category,
                                            amount[1], form.trans_currency,
                                            form.description)
                   IN  /\ transactions' = r.transactions
                       /\ sqlite_sequence' = r.sqlite_sequence
                       /\ reserved_lock' = r.reserved_lock
                       /\ issued' = Issued(r)
                       /\ last' = Returned("PersonalFinanceApp.add_transaction", r.ret)
  /\ UNCHANGED <<default_currency, current_currency, clock>>
  /\ UNCHANGED <<budgets, savings_goals>>
  /\ UNCHANGED contactVars

Call_delete_transaction(transaction_id) ==
  /\ LET r == delete_transaction(transaction_id)
     IN  /\ transactions' = r.transactions
         /\ last' = Returned("delete_transaction", r.ret)
  /\ UNCHANGED <<sqlite_sequence, default_currency, current_currency, clock,
                 reserved_lock, issued>>
  /\ UNCHANGED <<budgets, savings_goals>>
  /\ UNCHANGED contactVars

Call_clear_all_data ==
  /\ LET r == clear_all_data
     IN  /\ transactions' = r.transactions
         /\ budgets' = r.budgets
         /\ savings_goals' = r.savings_goals
         /\ last' = Returned("clear_all_data", r.ret)
  /\ UNCHANGED <<sqlite_sequence, default_currency, current_currency, clock,
                 reserved_lock, issued>>
  /\ UNCHANGED contactVars

Call_set_default_currency(currency) ==
  /\ LET r == set_default_currency(currency)
     IN  /\ default_currency' = r.default_currency
         /\ transactions' = r.transactions
         /\ last' = Returned("set_default_currency", r.ret)
  /\ UNCHANGED <<sqlite_sequence, current_currency, clock, reserved_lock, issued>>
  /\ UNCHANGED <<budgets, savings_goals>>
  /\ UNCHANGED contactVars

\* A choice in the currency selector of the main window.
on_currency_change(new_currency) ==
  /\ current_currency' = new_currency
  /\ LET r == set_default_currency(new_currency)
     IN  /\ default_currency' = r.default_currency
         /\ transactions' = r.transactions
         /\ last' = Returned("on_currency_change", r.ret)
  /\ UNCHANGED <<sqlite_sequence, clock, reserved_lock, issued>>
  /\ UNCHANGED <<budgets, savings_goals>>
  /\ UNCHANGED contactVars

\* A second passes.
Tick ==
  /\ clock < MaxClock
  /\ clock' = clock + 1
  /\ UNCHANGED <<transactions, sqlite_sequence, default_currency, current_currency,
                 reserved_lock, issued, last>>
  /\ UNCHANGED <<budgets, savings_goals>>
  /\ UNCHANGED contactVars

\* The interpreter reclaims the connection objects no call closed: their
\* transactions roll back and the write lock is free again.
GarbageCollect ==
  /\ reserved_lock
  /\ reserved_lock' = FALSE
  /\ UNCHANGED <<transactions, sqlite_sequence, default_currency, current_currency,
                 clock, issued, last>>
  /\ UNCHANGED <<budgets, savings_goals>>
  /\ UNCHANGED contactVars

\* Arguments of direct calls of delete_transaction: every id given so far and one never given.
IdArgs == 1..(MaxAdds + 1)

Next ==
  \/ \E c \in StoreCalls : Call_add_transaction(c)
  \/ \E form \in Forms, today \in Today : PersonalFinanceApp_add_transaction(form, today)
  \/ \E transaction_id \in IdArgs : Call_delete_transaction(transaction_id)
  \/ Call_clear_all_data
  \/ \E currency \in CurrencyArgs : Call_set_default_currency(currency)
  \/ \E new_currency \in currencies : on_currency_change(new_currency)
  \/ Tick
  \/ GarbageCollect

Spec == Init /\ [][Next]_vars

(***************************************************************************)
(* The monthly summary over a ledger of amounts with two decimal places.   *)
(***************************************************************************)
\* Number of transactions beyond which no further one is entered.
MaxRows == 3

D_2025_02_01 == <<"2", "0", "2", "5", "-", "0", "2", "-", "0", "1">>

\* Transactions entered: amounts 70.10, 80.20 and 90.30 in two currencies.
MonthlyCalls ==
  { Call(D_2025_01_15, "income", "Salary", A_70_10, INR),
    Call(D_2025_01_15, "income", "Gift", A_80_20, USD),
    Call(D_2025_01_15, "income", "Salary", A_90_30, INR),
    Call(D_2025_01_15, "expense", "Food", A_70_10, INR),
    Call(D_2025_01_15, "expense", "Housing", A_80_20, USD),
    Call(D_2025_01_15, "expense", "Food", A_90_30, INR),
    Call(D_2025_02_01, "income", "Salary", A_70_10, INR) }

\* Months the summary is asked for.
SummaryMonths == {M_2025_01, M_2025_02}

Enter_transaction(c) ==
  /\ sqlite_sequence < MaxRows
  /\ Do_add_transaction(c)

\* A call db.get_monthly_data(month); the dict returned is kept in last.
Call_get_monthly_data(month) ==
  /\ last' = Returned("get_monthly_data", get_monthly_data(month))
  /\ UNCHANGED ledgerVars
  /\ UNCHANGED contactVars

MonthlyNext ==
  \/ \E c \in MonthlyCalls : Enter_transaction(c)
  \/ \E month \in SummaryMonths : Call_get_monthly_data(month)

MonthlySpec == Init /\ [][MonthlyNext]_vars

(***************************************************************************)
(* The contact book: strings and lists as Python handles them.             *)
(***************************************************************************)
\* str.lower(), for the letters contact names are written with here.
lower(s) ==
  [i \in 1..Len(s) |->
     CASE s[i] = "A" -> "a" [] s[i] = "B" -> "b" [] s[i] = "C" -> "c" [] OTHER -> s[i]]

\* The whitespace characters among the characters used.
Whitespace == {" ", "\n"}

\* The element of a one-element set.  Binding a value as the element of a set
\* has it computed once, however often it is used afterwards.
The(S) == CHOOSE x \in S : TRUE

RECURSIVE lstrip(_)
lstrip(s) == IF s # << >> /\ Head(s) \in Whitespace THEN lstrip(Tail(s)) ELSE s

RECURSIVE rstrip(_)
rstrip(s) ==
  IF s # << >> /\ s[Len(s)] \in Whitespace THEN rstrip(SubSeq(s, 1, Len(s) - 1)) ELSE s

\* str.strip()
strip(s) == rstrip(lstrip(s))

\* term in s, for strings.
In(term, s) == \E i \in 0..(Len(s) - Len(term)) : SubSeq(s, i + 1, i + Len(term)) = term

RECURSIVE sorted(_)
\* sorted(contacts, key=lambda x: x["name"].lower()): stable, so contacts of
\* equal key keep the order they have in the list.
sorted(cs) ==
  IF cs = << >> THEN << >>
  ELSE The({ LET x == cs[Len(cs)]
                 k == Cardinality({i \in 1..Len(init) :
                                     ~StrLess(lower(x.name), lower(init[i].name))})
             IN  SubSeq(init, 1, k) \o <<x>> \o SubSeq(init, k + 1, Len(init))
             : init \in {sorted(SubSeq(cs, 1, Len(cs) - 1))} })

\* Mutant of update_list: the contacts are listed in the order of the list.
update_list_Unsorted(cs, search) ==
  LET shown == SelectSeq(cs, LAMBDA contact : In(lower(search), lower(contact.name)))
  IN  [i \in 1..Len(shown) |-> shown[i].name]

\* Mutant of update_list: the search term is not lower-cased.
update_list_TermAsTyped(cs, search) ==
  LET shown == SelectSeq(sorted(cs), LAMBDA contact : In(search, lower(contact.name)))
  IN  [i \in 1..Len(shown) |-> shown[i].name]

\* update_list: the names the listbox holds afterwards, for the contact list cs
\* and the text search of the search entry.
update_list(cs, search) ==
  LET search_term == lower(search)
      shown == SelectSeq(sorted(cs), LAMBDA contact : In(search_term, lower(contact.name)))
  IN  [i \in 1..Len(shown) |-> shown[i].name]

\* next((i for i, c in enumerate(contacts) if c["name"] == name), None), as 0 for None.
FirstNamed(cs, name) ==
  IF \E i \in 1..Len(cs) : cs[i].name = name
  THEN CHOOSE i \in 1..Len(cs) :
         cs[i].name = name /\ \A j \in 1..(i - 1) : cs[j].name # name
  ELSE 0

\* Mutant of AlreadyExists: the check for an existing name is missing.
AlreadyExists_Unchecked(name) == FALSE

\* any(c["name"] == name for c in self.contacts)
AlreadyExists(name) == \E i \in 1..Len(contacts) : contacts[i].name = name

(***************************************************************************)
(* The button handlers of the contact book, up to save_contacts: whether   *)
(* the handler goes on to save, and the contact list it then saves.        *)
(***************************************************************************)
add_contact(name_entry, phone_entry, email_entry) ==
  LET name == strip(name_entry)
      phone == strip(phone_entry)
      email == strip(email_entry)
  IN  IF name = << >> \/ phone = << >>
      THEN \* showwarning: "Name and Phone are required"
           [ret |-> FALSE, contacts |-> contacts]
      ELSE IF AlreadyExists(name)
      THEN \* showwarning: "Contact already exists"
           [ret |-> FALSE, contacts |-> contacts]
      ELSE [ret |-> TRUE,
            contacts |-> Append(contacts, [name |-> name, phone |-> phone, email |-> email])]

\* Mutant of update_contact: every contact of the selected name is rewritten.
update_contact_EveryMatch(name_entry, phone_entry, email_entry) ==
  IF selection = 0 \/ FirstNamed(contacts, contact_listbox[selection]) = 0
  THEN [ret |-> FALSE, contacts |-> contacts]
  ELSE [ret |-> TRUE,
        contacts |-> [i \in 1..Len(contacts) |->
                        IF contacts[i].name = contact_listbox[selection]
                        THEN [name |-> strip(name_entry), phone |-> strip(phone_entry),
                              email |-> strip(email_entry)]
                        ELSE contacts[i]]]

update_contact(name_entry, phone_entry, email_entry) ==
  IF selection = 0
  THEN \* showwarning: "Select a contact to update"
       [ret |-> FALSE, contacts |-> contacts]
  ELSE LET selected_name == contact_listbox[selection]
           i == FirstNamed(contacts, selected_name)
       IN  IF i = 0
           THEN \* no contact of that name: the handler returns silently
                [ret |-> FALSE, contacts |-> contacts]
           ELSE [ret |-> TRUE,
                 contacts |-> [contacts EXCEPT ![i] = [name |-> strip(name_entry),
                                                       phone |-> strip(phone_entry),
                                                       email |-> strip(email_entry)]]]

delete_contact ==
  IF selection = 0
  THEN \* showwarning: "Select a contact to delete"
       [ret |-> FALSE, contacts |-> contacts]
  ELSE LET selected_name == contact_listbox[selection]
       IN  [ret |-> TRUE,
            contacts |-> SelectSeq(contacts, LAMBDA c : c.name # selected_name)]


(***************************************************************************)
(* contacts.json: the text json.dump writes and what json.load makes of a  *)
(* text.                                                                   *)
(***************************************************************************)
QUOTE == "\""
BACKSLASH == "\\"
NEWLINE == "\n"

\* The keys of a contact dict, in the order add_contact builds it, and their texts.
ContactKeys == <<"name", "phone", "email">>

KeyText(key) ==
  CASE key = "name" -> <<"n", "a", "m", "e">>
    [] key = "phone" -> <<"p", "h", "o", "n", "e">>
    [] key = "email" -> <<"e", "m", "a", "i", "l">>

RECURSIVE Flatten(_)
\* "".join(parts)
Flatten(parts) == IF parts = << >> THEN << >> ELSE Head(parts) \o Flatten(Tail(parts))

\* Mutant of encode_basestring: quotes and backslashes are written as they are.
encode_basestring_Unescaped(str) == <<QUOTE>> \o str \o <<QUOTE>>

\* json.encoder's string encoding: the text between quotes, a quote, a
\* backslash and a newline each written as a two-character escape.
encode_basestring(str) ==
  <<QUOTE>>
  \o Flatten([i \in 1..Len(str) |->
                CASE str[i] = QUOTE -> <<BACKSLASH, QUOTE>>
                  [] str[i] = BACKSLASH -> <<BACKSLASH, BACKSLASH>>
                  [] str[i] = NEWLINE -> <<BACKSLASH, "n">>
                  [] OTHER -> <<str[i]>>])
  \o <<QUOTE>>

Spaces(n) == [i \in 1..n |-> " "]

\* One contact dict at indentation level 1 of json.dump(..., indent=4).
DumpDict(contact) ==
  LET Member(k) ==
        <<NEWLINE>> \o Spaces(8) \o encode_basestring(KeyText(ContactKeys[k])) \o <<":", " ">>
        \o encode_basestring(contact[ContactKeys[k]])
        \o (IF k < Len(ContactKeys) THEN <<",">> ELSE << >>)
  IN  <<"{">> \o Flatten([k \in 1..Len(ContactKeys) |-> Member(k)])
      \o <<NEWLINE>> \o Spaces(4) \o <<"}">>

\* The text json.dump(self.contacts, f, indent=4) writes.
json_dump(cs) ==
  IF cs = << >> THEN <<"[", "]">>
  ELSE <<"[">>
       \o Flatten([i \in 1..Len(cs) |->
                     <<NEWLINE>> \o Spaces(4) \o DumpDict(cs[i])
                     \o (IF i < Len(cs) THEN <<",">> ELSE << >>)])
       \o <<NEWLINE, "]">>

\* The whitespace JSON allows between tokens.
JsonWhitespace == {" ", NEWLINE}

\* The first position from i on that holds no whitespace (Len(text) + 1 at the end).
SkipWhitespace(text, i) ==
  CHOOSE j \in i..(Len(text) + 1) :
    /\ j = Len(text) + 1 \/ text[j] \notin JsonWhitespace
    /\ \A k \in i..(j - 1) : text[k] \in JsonWhitespace

Failed == [ok |-> FALSE]

RECURSIVE ScanString(_, _, _)
\* Reads a JSON string whose opening quote precedes position i.
ScanString(text, i, acc) ==
  IF i > Len(text) THEN Failed
  ELSE IF text[i] = QUOTE THEN [ok |-> TRUE, val |-> acc, next |-> i + 1]
  ELSE IF text[i] = NEWLINE THEN Failed
  ELSE IF text[i] = BACKSLASH
       THEN IF i + 1 > Len(text) THEN Failed
            ELSE IF text[i + 1] \in {QUOTE, BACKSLASH}
                 THEN ScanString(text, i + 2, Append(acc, text[i + 1]))
            ELSE IF text[i + 1] = "n" THEN ScanString(text, i + 2, Append(acc, NEWLINE))
            ELSE Failed
       ELSE ScanString(text, i + 1, Append(acc, text[i]))

\* A JSON string at position i.
ParseString(text, i) ==
  IF i <= Len(text) /\ text[i] = QUOTE THEN ScanString(text, i + 1, << >>) ELSE Failed

\* What json.load makes of a text is a Python value, written here as a record
\* [ok, kind, val, next]: kind is "str", "int", "dict" or "list", next the
\* position behind the value.  The parser reads the JSON the files considered
\* are made of: strings, whole numbers, objects whose members have string
\* values, and arrays of any of these.

\* A whole number at position i.
ParseInt(text, i) ==
  IF i > Len(text) \/ text[i] \notin Digits THEN Failed
  ELSE The({ [ok |-> TRUE, kind |-> "int",
              val |-> DigitsValue(SubSeq(text, i, end - 1)), next |-> end]
             : end \in {CHOOSE j \in (i + 1)..(Len(text) + 1) :
                          /\ j = Len(text) + 1 \/ text[j] \notin Digits
                          /\ \A k \in i..(j - 1) : text[k] \in Digits} })

\* What follows a member "key": "value" that ends before position after: a
\* comma and more members (more = TRUE), the closing brace, or a failure.
AfterMember(text, after) ==
  IF after > Len(text) THEN Failed
  ELSE IF text[after] = "," THEN [ok |-> TRUE, more |-> TRUE, next |-> after + 1]
  ELSE IF text[after] = "}" THEN [ok |-> TRUE, more |-> FALSE, next |-> after + 1]
  ELSE Failed

\* One member of a JSON object at position i: "key": "value".
ParseMember(text, i) ==
  The({ IF ~key.ok THEN Failed
        ELSE The({ IF colon > Len(text) \/ text[colon] # ":" THEN Failed
                   ELSE The({ IF ~value.ok THEN Failed
                              ELSE [ok |-> TRUE, val |-> <<key.val, value.val>>,
                                    next |-> SkipWhitespace(text, value.next)]
                              : value \in {ParseString(text, SkipWhitespace(text, colon + 1))} })
                   : colon \in {SkipWhitespace(text, key.next)} })
        : key \in {ParseString(text, SkipWhitespace(text, i))} })

RECURSIVE ParseMembers(_, _, _)
\* The members of a JSON object from position i on, the opening brace and the
\* members in acc read.
ParseMembers(text, i, acc) ==
  The({ IF ~member.ok THEN Failed
        ELSE The({ IF ~sep.ok THEN Failed
                   ELSE IF sep.more
                        THEN ParseMembers(text, sep.next, Append(acc, member.val))
                   ELSE [ok |-> TRUE, val |-> Append(acc, member.val), next |-> sep.next]
                   : sep \in {AfterMember(text, member.next)} })
        : member \in {ParseMember(text, i)} })

\* The field a key of a dict is kept under: the keys the program reads under
\* their own names, every other key under "other".
KeyName(key_text) ==
  CASE key_text = KeyText("name") -> "name"
    [] key_text = KeyText("phone") -> "phone"
    [] key_text = KeyText("email") -> "email"
    [] OTHER -> "other"

\* The dict of the members read, a record with the keys that are present: of
\* members with the same key the last one counts.
DictOf(members) ==
  LET Value(key) ==
        members[CHOOSE m \in 1..Len(members) :
                  /\ KeyName(members[m][1]) = key
                  /\ \A later \in (m + 1)..Len(members) : KeyName(members[later][1]) # key][2]
  IN  [key \in {KeyName(members[m][1]) : m \in 1..Len(members)} |-> Value(key)]

\* A JSON object at position i.
ParseObject(text, i) ==
  IF i > Len(text) \/ text[i] # "{" THEN Failed
  ELSE The({ IF first <= Len(text) /\ text[first] = "}"
             THEN [ok |-> TRUE, kind |-> "dict", val |-> DictOf(<< >>), next |-> first + 1]
             ELSE The({ IF ~members.ok THEN Failed
                        ELSE [ok |-> TRUE, kind |-> "dict", val |-> DictOf(members.val),
                              next |-> members.next]
                        : members \in {ParseMembers(text, i + 1, << >>)} })
             : first \in {SkipWhitespace(text, i + 1)} })

\* What follows an element of a JSON array that ends before position after: a
\* comma and more elements (more = TRUE), the closing bracket, or a failure.
AfterElement(text, after) ==
  IF after > Len(text) THEN Failed
  ELSE IF text[after] = "," THEN [ok |-> TRUE, more |-> TRUE, next |-> after + 1]
  ELSE IF text[after] = "]" THEN [ok |-> TRUE, more |-> FALSE, next |-> after + 1]
  ELSE Failed

\* An element of a list as the model keeps it: a dict as its record, a value
\* of another type as a record that names the type.
ElementOf(value) ==
  CASE value.kind = "dict" -> value.val
    [] value.kind = "str" -> [py_str |-> value.val]
    [] value.kind = "int" -> [py_int |-> value.val]
    [] value.kind = "list" -> [py_list |-> value.val]

RECURSIVE ParseValue(_, _)

RECURSIVE ParseElements(_, _, _)
\* The elements of a JSON array from position i on, the opening bracket and
\* the elements in acc read.
ParseElements(text, i, acc) ==
  The({ IF ~element.ok THEN Failed
        ELSE The({ IF ~sep.ok THEN Failed
                   ELSE IF sep.more
                        THEN ParseElements(text, sep.next, Append(acc, ElementOf(element)))
                   ELSE [ok |-> TRUE, kind |-> "list",
                         val |-> Append(acc, ElementOf(element)), next |-> sep.next]
                   : sep \in {AfterElement(text, SkipWhitespace(text, element.next))} })
        : element \in {ParseValue(text, SkipWhitespace(text, i))} })

\* A JSON array at position i.
ParseArray(text, i) ==
  IF i > Len(text) \/ text[i] # "[" THEN Failed
  ELSE The({ IF first <= Len(text) /\ text[first] = "]"
             THEN [ok |-> TRUE, kind |-> "list", val |-> << >>, next |-> first + 1]
             ELSE ParseElements(text, i + 1, << >>)
             : first \in {SkipWhitespace(text, i + 1)} })

\* A JSON value at position i.
ParseValue(text, i) ==
  IF i > Len(text) THEN Failed
  ELSE CASE text[i] = "[" -> ParseArray(text, i)
         [] text[i] = "{" -> ParseObject(text, i)
         [] text[i] = QUOTE ->
              The({ IF string.ok
                    THEN [ok |-> TRUE, kind |-> "str", val |-> string.val, next |-> string.next]
                    ELSE Failed
                    : string \in {ParseString(text, i)} })
         [] OTHER -> ParseInt(text, i)

\* json.load(f): the value read, or a failure (json.JSONDecodeError) when the
\* text is no JSON document.
json_load(text) ==
  The({ IF ~data.ok THEN Failed
        ELSE IF SkipWhitespace(text, data.next) <= Len(text)
             THEN Failed   \* JSONDecodeError: Extra data
        ELSE data
        : data \in {ParseValue(text, SkipWhitespace(text, 1))} })

\* load_contacts, for the file as it is (None while it does not exist): the
\* value read when it is a list, whatever its elements are; an empty list
\* when there is no file, when json.load raises, and when the value is no list.
load_contacts(file) ==
  IF file = None THEN << >>
  ELSE The({ IF data.ok /\ data.kind = "list" THEN data.val ELSE << >>
             : data \in {json_load(file[1])} })

(***************************************************************************)
(* The contact book: inputs and actions.                                   *)
(***************************************************************************)
\* Number of contacts beyond which no further contact is added.
MaxContacts == 2

Entry(name_entry, phone_entry, email_entry) ==
  [name_entry |-> name_entry, phone_entry |-> phone_entry, email_entry |-> email_entry]

\* Contents of the Name, Phone and Email entries when a button is pressed.
Entries ==
  { Entry(<<"a">>, <<"1">>, << >>),
    Entry(<<"A">>, <<"2">>, <<QUOTE, BACKSLASH>>),
    Entry(<<"a", "b">>, <<"1">>, << >>),
    Entry(<<" ", "a", " ">>, <<"1">>, << >>),
    Entry(<<" ">>, <<"1">>, << >>),
    Entry(<<"b">>, <<" ">>, << >>) }

\* Texts typed into the search entry.
SearchTerms == {<< >>, <<"A">>, <<"b">>}

\* How much of the text a save had written when the process was stopped in it:
\* nothing (the file is truncated on open), a part of it, all but the end.
CutPoints(text) == {0, Len(text) \div 2, Len(text) - 1}

\* The finance tracker is not open while the contact book is looked at.
LedgerClosed ==
  /\ transactions = << >>
  /\ sqlite_sequence = 0
  /\ default_currency = INR
  /\ current_currency = INR
  /\ clock = 0
  /\ reserved_lock = FALSE
  /\ issued = << >>
  /\ budgets = << >>
  /\ savings_goals = << >>

\* Before the first start: no contacts.json, no process.
ContactInit ==
  /\ LedgerClosed
  /\ contacts = << >>
  /\ contacts_file = None
  /\ search_var = << >>
  /\ contact_listbox = << >>
  /\ selection = 0
  /\ running = FALSE
  /\ last = Returned("none", TRUE)

\* update_list reads contact["name"].lower() of every element of the list: an
\* element that is no dict raises TypeError, a dict without the key KeyError.
Listable(cs) == \A i \in 1..Len(cs) : "name" \in DOMAIN cs[i]

\* ContactBookApp.__init__: the contacts are loaded and listed.  When
\* update_list raises, the exception leaves __init__ and the process ends
\* with a traceback before the window is shown.
ContactBookApp_init ==
  /\ ~running
  /\ IF Listable(load_contacts(contacts_file))
     THEN /\ running' = TRUE
          /\ contacts' = load_contacts(contacts_file)
          /\ contact_listbox' = update_list(load_contacts(contacts_file), << >>)
          /\ last' = Returned("__init__", TRUE)
     ELSE /\ running' = FALSE
          /\ contacts' = << >>
          /\ contact_listbox' = << >>
          /\ last' = Returned("__init__", FALSE)
  /\ search_var' = << >>
  /\ selection' = 0
  /\ UNCHANGED contacts_file
  /\ UNCHANGED ledgerVars

\* The window is closed: mainloop returns and the process ends.
Quit ==
  /\ running
  /\ running' = FALSE
  /\ last' = Returned("quit", TRUE)
  /\ UNCHANGED <<contacts, contacts_file, search_var, contact_listbox, selection>>
  /\ UNCHANGED ledgerVars

\* A write to the search entry: the trace on search_var calls update_list,
\* which empties and refills the listbox, so nothing is selected afterwards.
Search(term) ==
  /\ running
  /\ search_var' = term
  /\ contact_listbox' = update_list(contacts, term)
  /\ selection' = 0
  /\ last' = Returned("update_list", TRUE)
  /\ UNCHANGED <<contacts, contacts_file, running>>
  /\ UNCHANGED ledgerVars

\* A click on line i of the listbox; load_contact copies the contact of that
\* name into the entries.
ListboxSelect(i) ==
  /\ running
  /\ i \in 1..Len(contact_listbox)
  /\ selection' = i
  /\ last' = Returned("load_contact", TRUE)
  /\ UNCHANGED <<contacts, contacts_file, search_var, contact_listbox, running>>
  /\ UNCHANGED ledgerVars

\* The rest of a handler that changed the list to cs: save_contacts, update_list,
\* clear_fields.  save_contacts opens the file for writing, which empties it,
\* and then writes the text; a process stopped in between leaves a part of it.
SaveAndList(op, cs) ==
  /\ contacts' = cs
  /\ \/ /\ contacts_file' = Some(json_dump(cs))
        /\ contact_listbox' = update_list(cs, search_var)
        /\ selection' = 0
        /\ last' = Returned(op, TRUE)
        /\ UNCHANGED <<search_var, running>>
     \/ \E cut \in CutPoints(json_dump(cs)) :
          /\ contacts_file' = Some(SubSeq(json_dump(cs), 1, cut))
          /\ running' = FALSE
          /\ last' = Returned(op, FALSE)
          /\ UNCHANGED <<search_var, contact_listbox, selection>>

\* A handler that returned after its warning.
Refused(op) ==
  /\ last' = Returned(op, FALSE)
  /\ UNCHANGED contactVars

\* The Add button.
Press_add_contact(e) ==
  /\ running
  /\ Len(contacts) < MaxContacts
  /\ LET r == add_contact(e.name_entry, e.phone_entry, e.email_entry)
     IN  IF r.ret THEN SaveAndList("add_contact", r.contacts) ELSE Refused("add_contact")
  /\ UNCHANGED ledgerVars

\* The Update button.
Press_update_contact(e) ==
  /\ running
  /\ LET r == update_contact(e.name_entry, e.phone_entry, e.email_entry)
     IN  IF r.ret THEN SaveAndList("update_contact", r.contacts)
         ELSE Refused("update_contact")
  /\ UNCHANGED ledgerVars

\* The Delete button.
Press_delete_contact ==
  /\ running
  /\ LET r == delete_contact
     IN  IF r.ret THEN SaveAndList("delete_contact", r.contacts)
         ELSE Refused("delete_contact")
  /\ UNCHANGED ledgerVars

ContactNext ==
  \/ ContactBookApp_init
  \/ Quit
  \/ \E term \in SearchTerms : Search(term)
  \/ \E i \in 1..MaxContacts : ListboxSelect(i)
  \/ \E e \in Entries : Press_add_contact(e)
  \/ \E e \in Entries : Press_update_contact(e)
  \/ Press_delete_contact

ContactSpec == ContactInit /\ [][ContactNext]_vars

(***************************************************************************)
(* The contact book started on a contacts.json it did not write itself.    *)
(***************************************************************************)
\* The contacts the files below hold.
Alice == [name |-> <<"a">>, phone |-> <<"1">>, email |-> << >>]
Bob == [name |-> <<"B">>, phone |-> <<"2">>, email |-> <<QUOTE, BACKSLASH>>]

\* Texts of contacts.json: written by the program (whole and cut short), and
\* written by hand or by another program.
FileTexts ==
  { json_dump(<< >>),
    json_dump(<<Alice>>),
    json_dump(<<Bob, Alice>>),
    SubSeq(json_dump(<<Alice>>), 1, Len(json_dump(<<Alice>>)) - 1),
    << >>,
    <<"{", "}">>,
    <<"7">>,
    <<QUOTE, "a", QUOTE>>,
    <<"{">> \o encode_basestring(KeyText("name")) \o <<":", " ">>
      \o encode_basestring(<<"a">>) \o <<"}">>,
    <<"[", "7", "]">>,
    <<"[", QUOTE, "a", QUOTE, "]">>,
    <<"[", "[", "]", "]">>,
    <<"[", "{", "}", "]">>,
    <<"[", "{">> \o encode_basestring(KeyText("name")) \o <<":", " ">>
      \o encode_basestring(<<"a">>) \o <<"}", "]">>,
    <<"[", "{">> \o encode_basestring(KeyText("phone")) \o <<":", " ">>
      \o encode_basestring(<<"1">>) \o <<"}", "]">>,
    <<"[", "{">> \o encode_basestring(<<"i", "d">>) \o <<":", " ">>
      \o encode_basestring(<<"1">>) \o <<"}", "]">>,
    SubSeq(json_dump(<<Alice>>), 1, Len(json_dump(<<Alice>>)) - 2) \o <<",", " ", "7", "]">> }

Files == {None} \cup {Some(text) : text \in FileTexts}

\* Before a start: any of the files, no process.
LoadInit ==
  /\ LedgerClosed
  /\ contacts = << >>
  /\ contacts_file \in Files
  /\ search_var = << >>
  /\ contact_listbox = << >>
  /\ selection = 0
  /\ running = FALSE
  /\ last = Returned("none", TRUE)

\* While the program is not running, contacts.json is replaced from outside.
FileReplaced(file) ==
  /\ ~running
  /\ contacts_file' = file
  /\ last' = Returned("none", TRUE)
  /\ UNCHANGED <<contacts, search_var, contact_listbox, selection, running>>
  /\ UNCHANGED ledgerVars

LoadNext ==
  \/ ContactBookApp_init
  \/ Quit
  \/ \E term \in SearchTerms : Search(term)
  \/ \E i \in 1..MaxContacts : ListboxSelect(i)
  \/ \E file \in Files : FileReplaced(file)

LoadSpec == LoadInit /\ [][LoadNext]_vars

(***************************************************************************)
(* Claims.                                                                 *)
(***************************************************************************)
Ids(rows) == {rows[i].id : i \in 1..Len(rows)}

Rows(rows) == {rows[i] : i \in 1..Len(rows)}

\* The balance the ledger contract asks for: the sums of the amounts of the
\* income and of the expense rows, of currency f[1] when a filter f is given.
ClaimedBalance(f) ==
  LET Counts(row, kind) == row.type = kind /\ (f = None \/ row.currency = f[1])
      income == SumAmounts(SelectSeq(transactions, LAMBDA row : Counts(row, "income")))
      expenses == SumAmounts(SelectSeq(transactions, LAMBDA row : Counts(row, "expense")))
  IN  [total_income |-> income, total_expenses |-> expenses, balance |-> fsub(income, expenses)]

\* C1: for every ledger state and every optional currency filter, get_balance
\* returns total_income = the sum of the amounts of the income transactions (of
\* the filter's currency when a filter is given), total_expenses = the same sum
\* over the expense transactions, balance = total_income - total_expenses, and
\* 0 (never NULL) for a total no row contributes to.
C1_BalanceIsFilteredSum ==
  \A f \in CurrencyFilters : get_balance(f) = ClaimedBalance(f)

\* The monthly breakdown the contract asks for: only the rows whose date has
\* month as a literal prefix count.
ClaimedMonthlyData(month) ==
  LET InMonth(kind) ==
        SelectSeq(transactions, LAMBDA row : row.type = kind /\ IsPrefix(month, row.date))
      ByCategory(rows) ==
        [c \in {row.category : row \in Rows(rows)} |->
           SumAmounts(SelectSeq(rows, LAMBDA row : row.category = c))]
  IN  [income |-> SumAmounts(InMonth("income")),
       expenses |-> SumAmounts(InMonth("expense")),
       expense_categories |-> ByCategory(InMonth("expense")),
       income_categories |-> ByCategory(InMonth("income"))]

\* C2: for every ledger state and every month argument, get_monthly_data counts
\* in its income total, expense total and per-category sums exactly the
\* transactions whose date has the argument as a literal prefix.
C2_MonthIsLiteralPrefix ==
  \A month \in MonthArgs : get_monthly_data(month) = ClaimedMonthlyData(month)

\* The form's amount text is a number that is not positive.
FormAmountNotPositive(form) == float(form.amount) # None /\ NotPositive(float(form.amount)[1])

\* C3: every call of add_transaction with amount <= 0 fails and leaves the
\* transaction log unchanged, through the form handler as well as directly.
C3_NonPositiveAmountRejected ==
  [][ /\ \A c \in StoreCalls :
           NotPositive(c.amount) /\ Call_add_transaction(c)
             => ~last'.ret /\ transactions' = transactions
      /\ \A form \in Forms, today \in Today :
           FormAmountNotPositive(form)
           /\ PersonalFinanceApp_add_transaction(form, today)
             => ~last'.ret /\ transactions' = transactions ]_vars

\* C4: in every reachable state every stored transaction has amount > 0 and a
\* kind in {income, expense}.
C4_StoredAmountPositiveKindValid ==
  \A row \in Rows(transactions) : IsPositive(row.amount) /\ row.type \in {"income", "expense"}

Range(seq) == {seq[i] : i \in 1..Len(seq)}

\* C5: each successful add_transaction assigns an id strictly greater than
\* every id assigned before it, so no id is used twice, also after the row
\* that held it was deleted or after clear_all_data.
C5_IdsStrictlyIncrease ==
  /\ \A i, j \in 1..Len(issued) : i < j => issued[i] < issued[j]
  /\ Ids(transactions) \subseteq Range(issued)

\* C5 witness: an insert succeeded after earlier rows had been removed.
C5_Witness ==
  /\ last.op \in {"add_transaction", "PersonalFinanceApp.add_transaction"} /\ last.ret
  /\ Len(issued) >= 2
  /\ Len(transactions) = 1

\* C6: get_transactions returns the transactions by date descending, and of
\* two transactions of the same date the one inserted later comes first, also
\* when both were inserted within the same clock second.
C6_DateThenInsertionDescending ==
  \A listing \in get_transactions(None) :
    \A i, j \in 1..Len(listing) :
      i < j => /\ ~StrLess(listing[i].date, listing[j].date)
               /\ listing[i].date = listing[j].date => listing[i].id > listing[j].id

Min(a, b) == IF a <= b THEN a ELSE b

\* C7: for every given limit n, n = 0 included, get_transactions(limit = n)
\* returns at most n transactions, the first n (or all, if fewer) of the
\* unlimited ordering.
C7_LimitTakesHead ==
  \A limit \in LimitArgs \ {None} :
    \A listing \in get_transactions(limit) :
      /\ Len(listing) <= limit[1]
      /\ \E full \in get_transactions(None) :
           listing = SubSeq(full, 1, Min(limit[1], Len(full)))

\* C8: delete_transaction(id) reports failure and leaves the ledger unchanged
\* when no record has that id; otherwise it removes that record and no other,
\* and a removed record never comes back.
C8_DeleteRemovesExactlyOne ==
  [][ /\ \A transaction_id \in IdArgs :
           Call_delete_transaction(transaction_id)
             => IF transaction_id \in Ids(transactions)
                THEN /\ last'.ret
                     /\ Rows(transactions') =
                          {row \in Rows(transactions) : row.id # transaction_id}
                     /\ Len(transactions') = Len(transactions) - 1
                ELSE ~last'.ret /\ transactions' = transactions
      /\ \A id \in Range(issued) :
           id \notin Ids(transactions) => id \notin Ids(transactions') ]_vars

\* C9: every call of add_transaction whose date is not a valid calendar date
\* fails and leaves the transaction log unchanged.
C9_InvalidDateRejected ==
  [][ \A c \in StoreCalls :
        ~IsValidDate(c.date) /\ Call_add_transaction(c)
          => ~last'.ret /\ transactions' = transactions ]_vars

\* C10: the fields of a stored transaction never change between its creation
\* and its deletion, and set_default_currency changes the default-currency
\* setting only: every transaction, its currency included, stays as stored.
C10_TransactionsImmutable ==
  [][ /\ \A row \in Rows(transactions), row2 \in Rows(transactions') :
           row.id = row2.id => row = row2
      /\ \A currency \in CurrencyArgs \cup currencies :
           Call_set_default_currency(currency) \/ on_currency_change(currency)
             => /\ transactions' = transactions
                /\ sqlite_sequence' = sqlite_sequence
                /\ last'.ret => default_currency' = currency ]_vars

\* C10 witness: the default currency was changed while a transaction of
\* another currency is stored.
C10_Witness ==
  /\ last.op \in {"set_default_currency", "on_currency_change"} /\ last.ret
  /\ default_currency # INR
  /\ \E row \in Rows(transactions) : row.currency # default_currency

\* A month argument of the form YYYY-MM.
IsMonth(month) ==
  /\ Len(month) = 7
  /\ AllDigits(SubSeq(month, 1, 4)) /\ month[5] = "-" /\ AllDigits(SubSeq(month, 6, 7))
  /\ DigitsValue(SubSeq(month, 6, 7)) \in 1..12

\* The categories of the transactions of a kind that fall in a month.
CategoriesIn(kind, month) ==
  {row.category : row \in {x \in Rows(transactions) : x.type = kind /\ IsPrefix(month, x.date)}}

\* C11: in the result of get_monthly_data a category is a key of
\* income_categories (expense_categories) if and only if at least one income
\* (expense) transaction of that category falls in the month; a category with
\* no such transaction is absent, not present with value 0.
C11_CategoryKeyIffMatched ==
  \A month \in {m \in MonthArgs : IsMonth(m)} :
    LET data == get_monthly_data(month)
    IN  /\ DOMAIN data.income_categories = CategoriesIn("income", month)
        /\ DOMAIN data.expense_categories = CategoriesIn("expense", month)

\* C11 witness: a month has an income category while another income category
\* of the table has no transaction in that month and is no key.
C11_Witness ==
  \E month \in {m \in MonthArgs : IsMonth(m)} :
    /\ DOMAIN get_monthly_data(month).income_categories # {}
    /\ \E row \in Rows(transactions) :
         /\ row.type = "income"
         /\ row.category \notin DOMAIN get_monthly_data(month).income_categories

\* C12: after a successful clear_all_data, from any ledger state, the
\* transactions, budgets and savings_goals tables are empty (get_balance
\* returns all zeros and get_transactions an empty list) while the default
\* currency keeps the value it had before the call.
C12_ClearEmptiesTablesKeepsCurrency ==
  [][ Call_clear_all_data /\ last'.ret
        => /\ transactions' = << >> /\ budgets' = << >> /\ savings_goals' = << >>
           /\ \A f \in {None, Some(INR), Some(USD)} :
                get_balance(f)' = [total_income |-> Zero, total_expenses |-> Zero, balance |-> Zero]
           /\ \A limit \in LimitArgs : get_transactions(limit)' = {<< >>}
           /\ default_currency' = default_currency ]_vars

\* C12 witness: the tables were cleared after transactions had been stored
\* and the default currency had been changed.
C12_Witness ==
  /\ last.op = "clear_all_data" /\ last.ret
  /\ transactions = << >>
  /\ Len(issued) >= 2
  /\ default_currency # INR

(***************************************************************************)
(* Claims about the contact book.                                          *)
(***************************************************************************)
Names(cs) == {cs[i].name : i \in 1..Len(cs)}

\* The number of places of a sequence that hold x.
Count(seq, x) == Cardinality({i \in 1..Len(seq) : seq[i] = x})

\* C13: in every state reachable by add, update and delete from an empty
\* store, no two contacts have the same name and every contact has a
\* non-empty name and a non-empty phone.
C13_NamesUniqueAndRequiredFieldsPresent ==
  /\ \A i, j \in 1..Len(contacts) : i # j => contacts[i].name # contacts[j].name
  /\ \A i \in 1..Len(contacts) : contacts[i].name # << >> /\ contacts[i].phone # << >>

\* C14: add fails and leaves the contact list and the file as they are when
\* the name or the phone is empty after trimming, or when a contact of exactly
\* that name exists; the existing contact keeps its phone and email.
C14_AddRejectsEmptyAndDuplicate ==
  [][ \A e \in Entries :
        /\ \/ strip(e.name_entry) = << >>
           \/ strip(e.phone_entry) = << >>
           \/ strip(e.name_entry) \in Names(contacts)
        /\ last'.op = "add_contact"
        /\ Press_add_contact(e)
        => /\ ~last'.ret
           /\ contacts' = contacts
           /\ contacts_file' = contacts_file ]_vars

\* C14 witness: an add was refused while contacts are stored and mirrored.
C14_Witness ==
  /\ running /\ last.op = "add_contact" /\ ~last.ret
  /\ Len(contacts) >= 1
  /\ contacts_file = Some(json_dump(contacts))

\* C15, as claimed: after every add that succeeds, a search for the added name
\* returns exactly one contact, the one of that name.
C15_SearchAfterAddReturnsOne ==
  [][ \A e \in Entries :
        last'.op = "add_contact" /\ last'.ret /\ Press_add_contact(e)
          => update_list(contacts', strip(e.name_entry)) = <<strip(e.name_entry)>> ]_vars

\* C15, amended: after every add that succeeds, a search for the name as stored
\* lists exactly one contact of that name (next to it, the contacts whose names
\* contain it without regard to case).
C15_SearchAfterAddListsNameOnce ==
  [][ \A e \in Entries :
        last'.op = "add_contact" /\ last'.ret /\ Press_add_contact(e)
          => Count(update_list(contacts', strip(e.name_entry)), strip(e.name_entry)) = 1 ]_vars

\* C15 witness: a contact was added whose name is part of another contact's
\* name, so that a search for it lists both.
C15_Witness ==
  /\ running /\ last.op = "add_contact" /\ last.ret
  /\ contacts[Len(contacts)].name = <<"a">>
  /\ Len(update_list(contacts, <<"a">>)) = 2

\* C16: delete removes every contact of the selected name and leaves the other
\* contacts unchanged; a second delete right after the first reports no error,
\* changes nothing, and the store holds no contact of that name.
C16_DeleteRemovesAllAndIsIdempotent ==
  [][ /\ selection # 0 /\ last'.op = "delete_contact" /\ last'.ret /\ Press_delete_contact
        => contacts' = SelectSeq(contacts, LAMBDA c : c.name # contact_listbox[selection])
      /\ running /\ last.op = "delete_contact" /\ last.ret /\ Press_delete_contact
        => last'.ret /\ contacts' = contacts /\ contacts_file' = contacts_file ]_vars

\* C17: update fails and leaves the store unchanged when no contact of the
\* selected name exists; when one exists it replaces the fields of exactly one
\* contact of that name by the new values and leaves every other contact
\* unchanged.
C17_UpdateReplacesExactlyOne ==
  [][ \A e \in Entries :
        last'.op = "update_contact" /\ Press_update_contact(e)
          => IF selection = 0 \/ contact_listbox[selection] \notin Names(contacts)
             THEN ~last'.ret /\ contacts' = contacts /\ contacts_file' = contacts_file
             ELSE last'.ret
                    => \E i \in 1..Len(contacts) :
                         /\ contacts[i].name = contact_listbox[selection]
                         /\ contacts' =
                              [contacts EXCEPT ![i] = [name |-> strip(e.name_entry),
                                                       phone |-> strip(e.phone_entry),
                                                       email |-> strip(e.email_entry)]] ]_vars

\* C17 witness: an update succeeded with two contacts stored, and it gave the
\* selected contact the name the other contact has.
C17_Witness ==
  /\ running /\ last.op = "update_contact" /\ last.ret
  /\ Len(contacts) = 2
  /\ contacts[1].name = contacts[2].name

\* C18: the listbox holds exactly the contacts whose name contains the search
\* term as a substring, both compared without regard to case, in ascending
\* order of lower-cased name: none that matches is missing, no other is listed.
C18_SearchListsMatchesSorted ==
  running =>
    /\ \A name \in Names(contacts) \cup {contact_listbox[i] : i \in 1..Len(contact_listbox)} :
         Count(contact_listbox, name) =
           IF In(lower(search_var), lower(name))
           THEN Cardinality({i \in 1..Len(contacts) : contacts[i].name = name})
           ELSE 0
    /\ \A i, j \in 1..Len(contact_listbox) :
         i < j => ~StrLess(lower(contact_listbox[j]), lower(contact_listbox[i]))

\* C18 witness: a search in upper case lists two contacts written in lower
\* case, in another order than the contact list has them.
C18_Witness ==
  /\ running
  /\ search_var = <<"A">>
  /\ contact_listbox = << <<"a">>, <<"a", "b">> >>
  /\ contacts[1].name = <<"a", "b">>

\* C19: save followed by load gives a list equal by content to the saved one;
\* so after every completed add, update or delete, loading the file gives the
\* contact list in memory.
C19_SaveLoadRoundTrip ==
  /\ load_contacts(Some(json_dump(contacts))) = contacts
  /\ running /\ last.op \in {"add_contact", "update_contact", "delete_contact"} /\ last.ret
       => load_contacts(contacts_file) = contacts

\* C19 witness: a contact whose email holds a quote and a backslash was saved.
C19_Witness ==
  /\ running /\ last.op \in {"add_contact", "update_contact"} /\ last.ret
  /\ contacts_file # None
  /\ \E i \in 1..Len(contacts) : contacts[i].email = <<QUOTE, BACKSLASH>>

\* C20: save is atomic: at every point of a save, also when it is stopped
\* partway, the file holds the complete previous text or the complete new one,
\* never an empty, truncated or partial one.
C20_SaveIsAtomic ==
  [][ contacts_file' = contacts_file \/ contacts_file' = Some(json_dump(contacts')) ]_vars

\* C21: contact load never fails the caller, and for a file that is missing,
\* not parseable, not a list, or a list with an element that is no contact
\* record with name, phone and email, it returns an empty list: every element
\* of a loaded list is a dict with exactly those three keys, and the start of
\* the program, which loads and lists the contacts, succeeds.
C21_LoadedListHoldsContactsOnly ==
  last.op = "__init__"
    => /\ last.ret
       /\ \A i \in 1..Len(load_contacts(contacts_file)) :
            DOMAIN load_contacts(contacts_file)[i] = {"name", "phone", "email"}

\* C22: every ledger store operation releases the connection it opened before
\* it returns, on every exit path, the one where the statement raises an error
\* included: no connection is open between two operations, so none holds the
\* write lock of the database file.
C22_NoConnectionLeftOpen ==
  ~reserved_lock

\* The sums the values of a dict can be said to have: the real number, and
\* the double Python's sum() gives for the values in any order.
SumsOfValues(dict) ==
  LET keys == DOMAIN dict
      n == Cardinality(keys)
      Orders == {order \in [1..n -> keys] : \A i, j \in 1..n : order[i] = order[j] => i = j}
      RECURSIVE Real(_, _)
      Real(order, i) == IF i = 0 THEN Zero ELSE ExactSum(Real(order, i - 1), dict[order[i]])
      RECURSIVE Float(_, _)
      Float(order, i) == IF i = 0 THEN Zero ELSE fadd(Float(order, i - 1), dict[order[i]])
  IN  {Real(order, n) : order \in Orders} \cup {Float(order, n) : order \in Orders}

\* C23: for every ledger state and every month the result of get_monthly_data
\* is internally consistent: income is the sum of the values of
\* income_categories, expenses the sum of the values of expense_categories,
\* and both are taken over the month's rows of every currency.
C23_MonthlyTotalsEqualCategorySums ==
  last.op = "get_monthly_data"
    => /\ last.ret.income \in SumsOfValues(last.ret.income_categories)
       /\ last.ret.expenses \in SumsOfValues(last.ret.expense_categories)
       /\ \A month \in SummaryMonths :
            last.ret = get_monthly_data(month)
              => /\ last.ret.income
                      = SumAmounts(SelectSeq(transactions,
                                             LAMBDA row : row.type = "income" /\ IsPrefix(month, row.date)))
                 /\ last.ret.expenses
                      = SumAmounts(SelectSeq(transactions,
                                             LAMBDA row : row.type = "expense" /\ IsPrefix(month, row.date)))

====
